---------------------------- MODULE Spec2Model ----------------------------
(***************************************************************************)
(* A model of src/main.py: the text/binary classifier is_text_file and the *)
(* exporter save_project_to_txt, which walks a project tree top-down,      *)
(* filters directories and files, and writes one record per accepted file  *)
(* into the output artifact.                                               *)
(*                                                                         *)
(* Bytes and characters are their integer codes; a file name, a path and a *)
(* file content are sequences of such codes.                               *)
(***************************************************************************)
EXTENDS Integers, Sequences, FiniteSets, TLC

VARIABLES
    cls,        \* one call of is_text_file: the file read and the value returned
    args,       \* the arguments of save_project_to_txt
    fs,         \* the project tree: directory names, file names, bytes, faults
    root_kind,  \* what project_path names: "dir", "file" or "missing"
    out_ok,     \* whether output_file can be opened for writing
    out_at,     \* the file of the tree that is output_file, or 0 when outside
    bufsize,    \* capacity of the write buffer behind out_f
    disk,       \* the output artifact on disk: the write calls flushed so far
    buf,        \* the write calls still pending in out_f's buffer
    pc,         \* "idle", "walk", "done" (returned) or "error" (raised)
    todo,       \* directories os.walk has still to yield, next first
    cur,        \* the directory whose files are being processed (0: none)
    idx,        \* index in files of the next filename of cur
    visited,    \* directories os.walk has listed
    sampled,    \* files is_text_file has opened
    opened,     \* files opened for the full read
    skip,       \* per file: why it produced no record, "emit", or "none"
    seen,       \* per file: the decoded content read from it
    run,        \* 1 during the first export, 2 during the repeated one
    first       \* the artifact the first export left on disk

vars == << cls, args, fs, root_kind, out_ok, out_at, bufsize, disk, buf, pc,
           todo, cur, idx, visited, sampled, opened, skip, seen, run, first >>

walkvars == << args, fs, root_kind, out_ok, out_at, bufsize, disk, buf, pc,
               todo, cur, idx, visited, sampled, opened, skip, seen, run, first >>

----------------------------------------------------------------------------
(* Sequences *)

Take(s, n) == SubSeq(s, 1, IF n < Len(s) THEN n ELSE Len(s))

Drop(s, n) == SubSeq(s, n + 1, Len(s))

Rep(b, n) == [i \in 1..n |-> b]

Range(s) == {s[i] : i \in DOMAIN s}

\* The concatenation of a sequence of sequences (halving keeps the recursion shallow).
RECURSIVE Flatten(_)
Flatten(ss) ==
    IF ss = <<>> THEN <<>>
    ELSE IF Len(ss) = 1 THEN ss[1]
    ELSE LET h == Len(ss) \div 2
         IN  Flatten(SubSeq(ss, 1, h)) \o Flatten(SubSeq(ss, h + 1, Len(ss)))

\* All sequences over S of length at most n.
BoundedSeq(S, n) == UNION {[1..m -> S] : m \in 0..n}

\* An optional argument: None, or <<n>> for the value n.
None == <<>>

Some(n) == <<n>>

----------------------------------------------------------------------------
(* is_text_file *)

chunk_size == 1024

\* range(0x20, 0x7F) where the source has it: the Python range excludes its end.
PyRange(a, b) == a..(b - 1)

\* A variant whose printable range runs to 0x7F inclusive (DEL counted as text).
text_chars_wide == {7, 8, 9, 10, 12, 13, 27} \cup (32..127) \cup PyRange(128, 256)

text_chars == {7, 8, 9, 10, 12, 13, 27} \cup PyRange(32, 127) \cup PyRange(128, 256)

\* (non_text / len(chunk)) < 0.3 in double arithmetic.  For 0 <= k <= n <= 1024
\* the rounded quotient is below the double 0.3 exactly when k/n < 3/10 as
\* rationals: k/n = 3/10 rounds to the same double as the literal, and any other
\* quotient differs from 3/10 by at least 1/(10n), far above the rounding error.
BelowThreshold(k, n) == 10 * k < 3 * n

\* A variant without the null-byte test of lines 13-14.
is_text_file_no_null_check(bytes, readable) ==
    IF ~readable THEN FALSE
    ELSE LET chunk == Take(bytes, chunk_size) IN
         IF chunk = <<>> THEN TRUE
         ELSE LET non_text == Cardinality({i \in DOMAIN chunk : chunk[i] \notin text_chars})
              IN  BelowThreshold(non_text, Len(chunk))

\* readable = FALSE: open or read raises, and the except clause returns False.
is_text_file(bytes, readable) ==
    IF ~readable THEN FALSE
    ELSE LET chunk == Take(bytes, chunk_size) IN
         IF chunk = <<>> THEN TRUE
         ELSE IF \E i \in DOMAIN chunk : chunk[i] = 0 THEN FALSE
         ELSE LET non_text == Cardinality({i \in DOMAIN chunk : chunk[i] \notin text_chars})
              IN  BelowThreshold(non_text, Len(chunk))

----------------------------------------------------------------------------
(* Strings: str.lower, str.startswith('.'), os.path.splitext *)

DOT == 46

\* str.lower on the ASCII letters the names of the model are made of.
LowerChar(c) == IF c \in 65..90 THEN c + 32 ELSE c

Lower(s) == [i \in DOMAIN s |-> LowerChar(s[i])]

\* A variant of Lower that leaves the case as it is.
Unlowered(s) == s

StartsWithDot(name) == Len(name) > 0 /\ name[1] = DOT

\* rfind('.') counted from 1; 0 when there is no dot.
LastDot(name) ==
    LET dots == {i \in DOMAIN name : name[i] = DOT}
    IN  IF dots = {} THEN 0 ELSE CHOOSE i \in dots : \A j \in dots : j <= i

\* os.path.splitext(filename)[1]: from the last dot on, unless only dots come
\* before it (leading dots are not an extension).
splitext(name) ==
    LET dotIndex == LastDot(name)
    IN  IF dotIndex > 0 /\ \E j \in 1..(dotIndex - 1) : name[j] # DOT
        THEN Drop(name, dotIndex - 1)
        ELSE <<>>

----------------------------------------------------------------------------
(* Decoding and encoding *)

Invalid == <<-1>>

IsCont(b, j) == j <= Len(b) /\ b[j] \in 128..191

\* The length of the well-formed UTF-8 sequence that starts at b[i], 0 if none
\* (overlong forms, surrogates and code points above U+10FFFF are refused).
Utf8Len(b, i) ==
    LET c == b[i] IN
    IF c < 128 THEN 1
    ELSE IF c \in 194..223 /\ IsCont(b, i + 1) THEN 2
    ELSE IF /\ c \in 224..239 /\ IsCont(b, i + 1) /\ IsCont(b, i + 2)
            /\ (c = 224 => b[i + 1] >= 160)
            /\ (c = 237 => b[i + 1] <= 159) THEN 3
    ELSE IF /\ c \in 240..244 /\ IsCont(b, i + 1) /\ IsCont(b, i + 2) /\ IsCont(b, i + 3)
            /\ (c = 240 => b[i + 1] >= 144)
            /\ (c = 244 => b[i + 1] <= 143) THEN 4
    ELSE 0

Utf8Point(b, i, n) ==
    IF n = 1 THEN b[i]
    ELSE IF n = 2 THEN (b[i] - 192) * 64 + (b[i + 1] - 128)
    ELSE IF n = 3 THEN (b[i] - 224) * 4096 + (b[i + 1] - 128) * 64 + (b[i + 2] - 128)
    ELSE (b[i] - 240) * 262144 + (b[i + 1] - 128) * 4096
         + (b[i + 2] - 128) * 64 + (b[i + 3] - 128)

IsContByte(x) == x \in 128..191

\* Well-formed UTF-8: every byte that is not a continuation byte starts a
\* well-formed sequence, and every continuation byte belongs to the sequence
\* that the nearest such byte before it starts.
Utf8Valid(b) ==
    \A i \in DOMAIN b :
        IF IsContByte(b[i])
        THEN \E k \in 1..3 :
                /\ i - k >= 1
                /\ ~IsContByte(b[i - k])
                /\ \A m \in 1..(k - 1) : IsContByte(b[i - m])
                /\ Utf8Len(b, i - k) > k
        ELSE Utf8Len(b, i) # 0

\* bytes.decode('utf-8'): the code points, or Invalid where Python raises
\* UnicodeDecodeError.
decode_utf8(b) ==
    IF ~Utf8Valid(b) THEN Invalid
    ELSE Flatten([i \in DOMAIN b |->
                    IF IsContByte(b[i]) THEN <<>>
                    ELSE <<Utf8Point(b, i, Utf8Len(b, i))>>])

\* bytes.decode('latin-1'): byte b is code point b; it never fails.
decode_latin1(b) == b

\* str.encode('utf-8') of one code point.
EncodePoint(c) ==
    IF c < 128 THEN <<c>>
    ELSE IF c < 2048 THEN <<192 + (c \div 64), 128 + (c % 64)>>
    ELSE IF c < 65536 THEN <<224 + (c \div 4096), 128 + ((c \div 64) % 64), 128 + (c % 64)>>
    ELSE <<240 + (c \div 262144), 128 + ((c \div 4096) % 64),
           128 + ((c \div 64) % 64), 128 + (c % 64)>>

encode_utf8(s) == Flatten([i \in DOMAIN s |-> EncodePoint(s[i])])

\* What lines 94-108 leave in content: UTF-8 first, Latin-1 when that raises.
Decode(b) == IF decode_utf8(b) # Invalid THEN decode_utf8(b) ELSE decode_latin1(b)

----------------------------------------------------------------------------
(* Lines 110-118: the line limit *)

LF == 10

CR == 13

\* The characters str.splitlines breaks a line at: \n \v \f \r FS GS RS NEL LS PS.
LineBreaks == {10, 11, 12, 13, 28, 29, 30, 133, 8232, 8233}

RECURSIVE splitlines(_)
splitlines(s) ==
    LET brks == {i \in DOMAIN s : s[i] \in LineBreaks} IN
    IF s = <<>> THEN <<>>
    ELSE IF brks = {} THEN <<s>>
    ELSE LET k == CHOOSE i \in brks : \A j \in brks : i <= j
             w == IF s[k] = CR /\ k < Len(s) /\ s[k + 1] = LF THEN 2 ELSE 1
         IN  <<SubSeq(s, 1, k - 1)>> \o splitlines(Drop(s, k - 1 + w))

\* '\n'.join(lines)
RECURSIVE join(_)
join(lines) ==
    IF lines = <<>> THEN <<>>
    ELSE IF Len(lines) = 1 THEN lines[1]
    ELSE lines[1] \o <<LF>> \o join(Tail(lines))

\* A variant that also rejoins a content of exactly max_lines lines.
limit_lines_at_or_over(content, max_lines) ==
    IF max_lines = None THEN content
    ELSE LET lines == splitlines(content) IN
         IF Len(lines) >= max_lines[1] THEN join(Take(lines, max_lines[1])) ELSE content

\* max_lines is None or Some(n) for a line count n (a natural number).
limit_lines(content, max_lines) ==
    IF max_lines = None THEN content
    ELSE LET lines == splitlines(content)
             original_line_count == Len(lines)
         IN  IF original_line_count > max_lines[1]
             THEN join(Take(lines, max_lines[1]))
             ELSE content

----------------------------------------------------------------------------
(* Lines 44-55: the arguments and the built-in exclusions *)

DirGit == <<46, 103, 105, 116>>  \* '.git'

DirPycache == <<95, 95, 112, 121, 99, 97, 99, 104, 101, 95, 95>>  \* '__pycache__'

DirVenv == <<118, 101, 110, 118>>  \* 'venv'

DirNodeModules == <<110, 111, 100, 101, 95, 109, 111, 100, 117, 108, 101, 115>>  \* 'node_modules'

default_exclude_dirs == {DirGit, DirPycache, DirVenv, DirNodeModules}

ExtPng == <<46, 112, 110, 103>>  \* '.png'

ExtJpg == <<46, 106, 112, 103>>  \* '.jpg'

ExtJpeg == <<46, 106, 112, 101, 103>>  \* '.jpeg'

ExtGif == <<46, 103, 105, 102>>  \* '.gif'

ExtBmp == <<46, 98, 109, 112>>  \* '.bmp'

ExtIco == <<46, 105, 99, 111>>  \* '.ico'

ExtSvg == <<46, 115, 118, 103>>  \* '.svg'

ExtPdf == <<46, 112, 100, 102>>  \* '.pdf'

ExtZip == <<46, 122, 105, 112>>  \* '.zip'

ExtTarGz == <<46, 116, 97, 114, 46, 103, 122>>  \* '.tar.gz'

ExtO == <<46, 111>>  \* '.o'

ExtD == <<46, 100>>  \* '.d'

ExtBin == <<46, 98, 105, 110>>  \* '.bin'

default_exclude_exts ==
    {ExtPng, ExtJpg, ExtJpeg, ExtGif, ExtBmp, ExtIco, ExtSvg,
     ExtPdf, ExtZip, ExtTarGz, ExtO, ExtD, ExtBin}

\* The sets the walk uses: the caller's names lowercased, plus the defaults.
exclude_dirs == {Lower(d) : d \in args.exclude_dirs} \cup default_exclude_dirs

exclude_exts == {Lower(e) : e \in args.exclude_exts} \cup default_exclude_exts

include_exts == {Lower(e) : e \in args.include_exts}

----------------------------------------------------------------------------
(* The project tree.  Directory 1 is project_path; fs.dirs[d].dirs and       *)
(* fs.dirs[d].files are what os.walk lists for d, in the order it lists them *)

RootDir == 1

SEP == 47

RECURSIVE rel_dir(_)
rel_dir(d) ==
    IF d = RootDir THEN <<>>
    ELSE rel_dir(fs.dirs[d].parent) \o fs.dirs[d].name \o <<SEP>>

DirOf(f) == CHOOSE d \in DOMAIN fs.dirs : f \in Range(fs.dirs[d].files)

\* os.path.relpath(os.path.join(root, filename), project_path)
rel_path(f) == rel_dir(DirOf(f)) \o fs.files[f].name

----------------------------------------------------------------------------
(* Lines 59 and 121-123: the output artifact.  disk and buf hold the write   *)
(* calls; a write call is the header line, the content or the separator of  *)
(* a record, with the file it was written for.                               *)

SepWidth == 78

HeaderPrefix == <<47, 47, 32, 70, 73, 76, 69, 58, 32>>  \* '// FILE: '

ChunkText(c) ==
    IF c.k = "hdr" THEN HeaderPrefix \o c.s \o <<LF>>
    ELSE IF c.k = "body" THEN c.s \o <<LF, LF>>
    ELSE <<47, 47>> \o Rep(61, SepWidth) \o <<LF, LF>>

\* The bytes of the artifact: encoding='utf-8', and no newline translation
\* (os.linesep is '\n').
Render(chunks) == Flatten([i \in DOMAIN chunks |-> encode_utf8(ChunkText(chunks[i]))])

Size(chunks) == Len(Render(chunks))

\* A variant that opens in mode 'a': what the path held stays.
open_for_append(previous) == previous

\* open(output_file, 'w') truncates what the path held.
open_for_write(previous) == <<>>

\* out_f.write(c) through the default buffering: c is appended to the buffer
\* while it fits; otherwise the buffer goes to disk first, and c with it when c
\* alone exceeds the buffer.
write(st, c) ==
    IF Size(st.buf) + Size(<<c>>) <= bufsize
    THEN [disk |-> st.disk, buf |-> st.buf \o <<c>>]
    ELSE IF Size(<<c>>) > bufsize
    THEN [disk |-> st.disk \o st.buf \o <<c>>, buf |-> <<>>]
    ELSE [disk |-> st.disk \o st.buf, buf |-> <<c>>]

\* Lines 121-123 for file f with the content to write.
write_record(st, f, content) ==
    write(write(write(st, [k |-> "hdr", f |-> f, s |-> rel_path(f)]),
                [k |-> "body", f |-> f, s |-> content]),
          [k |-> "sep", f |-> f, s |-> <<>>])

----------------------------------------------------------------------------
(* What an open and a read of file f give *)

\* The output file, when it lies in the tree, holds what has reached the disk.
file_bytes(f) == IF f = out_at THEN Render(disk) ELSE fs.files[f].bytes

\* "ok"; "unreadable": every open raises; "readfail": the sample is read and
\* the full read raises; "retryfail": the reopening for Latin-1 raises.
file_fault(f) == IF f = out_at THEN "ok" ELSE fs.files[f].fault

----------------------------------------------------------------------------
(* Lines 62-64 and 72-81: the filters *)

dir_key(name) == Lower(name)

\* The condition under which lines 62-64 keep d in dirs.
keep_dir(name) ==
    ~(dir_key(name) \in exclude_dirs \/ (args.skip_hidden /\ StartsWithDot(name)))

kept_dirs(d) == SelectSeq(fs.dirs[d].dirs, LAMBDA c : keep_dir(fs.dirs[c].name))

hidden_skipped(name) == args.skip_hidden /\ StartsWithDot(name)

file_ext(name) == Lower(splitext(name))

\* A variant that consults the exclude set before the include set.
ext_rejected_exclude_first(name) ==
    \/ file_ext(name) \in exclude_exts
    \/ include_exts # {} /\ file_ext(name) \notin include_exts

\* Lines 77-81: TRUE where the loop continues on the extension.
ext_rejected(name) ==
    IF include_exts # {}
    THEN file_ext(name) \notin include_exts
    ELSE file_ext(name) \in exclude_exts

----------------------------------------------------------------------------
(* save_project_to_txt, one step at a time *)

Files == DOMAIN fs.files

CurFiles == IF cur = 0 THEN <<>> ELSE fs.dirs[cur].files

\* The for loop of line 67 has a filename to process.
AtFile == pc = "walk" /\ cur # 0 /\ idx <= Len(CurFiles)

CurFile == CurFiles[idx]

\* is_text_file(file_path) as line 84 calls it.
classified_text(f) == is_text_file(file_bytes(f), file_fault(f) # "unreadable")

\* A variant in which the exception of a file leaves save_project_to_txt.
on_file_error_raise == "error"

\* The continue of lines 104 and 108: the walk goes on with the next filename.
on_file_error == "walk"

\* Line 59, when the open succeeds: the artifact is truncated, the walk starts.
OpenOutput ==
    /\ pc = "idle"
    /\ out_ok
    /\ disk' = open_for_write(disk)
    /\ buf' = <<>>
    /\ todo' = <<RootDir>>
    /\ pc' = "walk"
    /\ UNCHANGED << cls, args, fs, root_kind, out_ok, out_at, bufsize, cur, idx,
                    visited, sampled, opened, skip, seen, run, first >>

\* Line 59, when the open raises: the exception leaves save_project_to_txt.
OpenOutputFails ==
    /\ pc = "idle"
    /\ ~out_ok
    /\ pc' = "error"
    /\ UNCHANGED << cls, args, fs, root_kind, out_ok, out_at, bufsize, disk, buf,
                    todo, cur, idx, visited, sampled, opened, skip, seen, run, first >>

\* Lines 60-64: os.walk yields the next directory and the loop body prunes its
\* dirs.  os.walk swallows the error of listing a project_path that is missing
\* or no directory (onerror is None) and yields nothing.
NextDir ==
    /\ pc = "walk"
    /\ ~AtFile
    /\ todo # <<>>
    /\ LET d == Head(todo) IN
       IF d = RootDir /\ root_kind # "dir"
       THEN /\ todo' = Tail(todo)
            /\ cur' = 0
            /\ UNCHANGED visited
       ELSE /\ visited' = visited \cup {d}
            /\ todo' = kept_dirs(d) \o Tail(todo)
            /\ cur' = d
    /\ idx' = 1
    /\ UNCHANGED << cls, args, fs, root_kind, out_ok, out_at, bufsize, disk, buf, pc,
                    sampled, opened, skip, seen, run, first >>

\* Lines 72-73.
SkipHidden ==
    /\ AtFile
    /\ hidden_skipped(fs.files[CurFile].name)
    /\ skip' = [skip EXCEPT ![CurFile] = "hidden"]
    /\ idx' = idx + 1
    /\ UNCHANGED << cls, args, fs, root_kind, out_ok, out_at, bufsize, disk, buf, pc,
                    todo, cur, visited, sampled, opened, seen, run, first >>

\* Lines 76-81.
SkipExtension ==
    /\ AtFile
    /\ ~hidden_skipped(fs.files[CurFile].name)
    /\ ext_rejected(fs.files[CurFile].name)
    /\ skip' = [skip EXCEPT ![CurFile] = "ext"]
    /\ idx' = idx + 1
    /\ UNCHANGED << cls, args, fs, root_kind, out_ok, out_at, bufsize, disk, buf, pc,
                    todo, cur, visited, sampled, opened, seen, run, first >>

PassesNameFilters(f) ==
    /\ ~hidden_skipped(fs.files[f].name)
    /\ ~ext_rejected(fs.files[f].name)

\* Lines 84-87.
SkipNonText ==
    /\ AtFile
    /\ PassesNameFilters(CurFile)
    /\ ~classified_text(CurFile)
    /\ sampled' = sampled \cup {CurFile}
    /\ skip' = [skip EXCEPT ![CurFile] = "nontext"]
    /\ idx' = idx + 1
    /\ UNCHANGED << cls, args, fs, root_kind, out_ok, out_at, bufsize, disk, buf, pc,
                    todo, cur, visited, opened, seen, run, first >>

\* Lines 94-96 and 105-108: the open or the read raises something other than
\* UnicodeDecodeError.
SkipReadError ==
    /\ AtFile
    /\ PassesNameFilters(CurFile)
    /\ classified_text(CurFile)
    /\ file_fault(CurFile) = "readfail"
    /\ sampled' = sampled \cup {CurFile}
    /\ opened' = opened \cup {CurFile}
    /\ skip' = [skip EXCEPT ![CurFile] = "read"]
    /\ idx' = idx + 1
    /\ pc' = on_file_error
    /\ UNCHANGED << cls, args, fs, root_kind, out_ok, out_at, bufsize, disk, buf,
                    todo, cur, visited, seen, run, first >>

\* Lines 97-104: UTF-8 raises UnicodeDecodeError and the second attempt raises
\* (Latin-1 itself decodes every byte string; only the reopening can fail).
SkipDecodeError ==
    /\ AtFile
    /\ PassesNameFilters(CurFile)
    /\ classified_text(CurFile)
    /\ file_fault(CurFile) = "retryfail"
    /\ decode_utf8(file_bytes(CurFile)) = Invalid
    /\ sampled' = sampled \cup {CurFile}
    /\ opened' = opened \cup {CurFile}
    /\ skip' = [skip EXCEPT ![CurFile] = "decode"]
    /\ idx' = idx + 1
    /\ pc' = on_file_error
    /\ UNCHANGED << cls, args, fs, root_kind, out_ok, out_at, bufsize, disk, buf,
                    todo, cur, visited, seen, run, first >>

\* Lines 94-100 succeed, then lines 110-123: the record is written.
Emit ==
    /\ AtFile
    /\ PassesNameFilters(CurFile)
    /\ classified_text(CurFile)
    /\ \/ file_fault(CurFile) = "ok"
       \/ file_fault(CurFile) = "retryfail" /\ decode_utf8(file_bytes(CurFile)) # Invalid
    /\ LET f == CurFile
           content == Decode(file_bytes(f))
           st == write_record([disk |-> disk, buf |-> buf], f,
                              limit_lines(content, args.max_lines))
       IN  /\ seen' = [seen EXCEPT ![f] = content]
           /\ disk' = st.disk
           /\ buf' = st.buf
           /\ skip' = [skip EXCEPT ![f] = "emit"]
           /\ sampled' = sampled \cup {f}
           /\ opened' = opened \cup {f}
    /\ idx' = idx + 1
    /\ UNCHANGED << cls, args, fs, root_kind, out_ok, out_at, bufsize, pc,
                    todo, cur, visited, run, first >>

\* The walk is exhausted: the with block closes out_f, which flushes it, and
\* save_project_to_txt returns.
Finish ==
    /\ pc = "walk"
    /\ ~AtFile
    /\ todo = <<>>
    /\ disk' = disk \o buf
    /\ buf' = <<>>
    /\ pc' = "done"
    /\ UNCHANGED << cls, args, fs, root_kind, out_ok, out_at, bufsize,
                    todo, cur, idx, visited, sampled, opened, skip, seen, run, first >>

\* The caller runs the export again: same arguments, same tree.
RunAgain ==
    /\ pc \in {"done", "error"}
    /\ run = 1
    /\ run' = 2
    /\ first' = disk
    /\ pc' = "idle"
    /\ todo' = <<>>
    /\ cur' = 0
    /\ idx' = 1
    /\ visited' = {}
    /\ sampled' = {}
    /\ opened' = {}
    /\ skip' = [f \in Files |-> "none"]
    /\ seen' = [f \in Files |-> <<>>]
    /\ UNCHANGED << cls, args, fs, root_kind, out_ok, out_at, bufsize, disk, buf >>

Next ==
    \/ OpenOutput
    \/ OpenOutputFails
    \/ NextDir
    \/ SkipHidden
    \/ SkipExtension
    \/ SkipNonText
    \/ SkipReadError
    \/ SkipDecodeError
    \/ Emit
    \/ Finish
    \/ RunAgain

----------------------------------------------------------------------------
(* The projects, arguments and environments the export is run on *)

NameSrc == <<115, 114, 99>>  \* 'src'

NameSub == <<115, 117, 98>>  \* 'sub'

NameLib == <<108, 105, 98>>  \* 'lib'

NameGitUpper == <<46, 71, 73, 84>>  \* '.GIT'

NameCache == <<46, 99, 97, 99, 104, 101>>  \* '.cache'

NameBuild == <<98, 117, 105, 108, 100>>  \* 'build'

NameBuildCap == <<66, 117, 105, 108, 100>>  \* 'Build'

NameBuildUpper == <<66, 85, 73, 76, 68>>  \* 'BUILD'

NameVenvCap == <<86, 101, 110, 118>>  \* 'Venv'

File_a_py == <<97, 46, 112, 121>>  \* 'a.py'

File_A_PY == <<65, 46, 80, 89>>  \* 'A.PY'

File_b_txt == <<98, 46, 116, 120, 116>>  \* 'b.txt'

File_main_txt == <<109, 97, 105, 110, 46, 116, 120, 116>>  \* 'main.txt'

File_config == <<99, 111, 110, 102, 105, 103>>  \* 'config'

File_deep_py == <<100, 101, 101, 112, 46, 112, 121>>  \* 'deep.py'

File_util_py == <<117, 116, 105, 108, 46, 112, 121>>  \* 'util.py'

File_env == <<46, 101, 110, 118>>  \* '.env'

File_Makefile == <<77, 97, 107, 101, 102, 105, 108, 101>>  \* 'Makefile'

File_out_txt == <<111, 117, 116, 46, 116, 120, 116>>  \* 'out.txt'

File_archive_tar_gz == <<97, 114, 99, 104, 105, 118, 101, 46, 116, 97, 114, 46, 103, 122>>  \* 'archive.tar.gz'

File_PHOTO_PNG == <<80, 72, 79, 84, 79, 46, 80, 78, 71>>  \* 'PHOTO.PNG'

File_dotpng == <<46, 112, 110, 103>>  \* '.png'

ExtPy == <<46, 112, 121>>  \* '.py'

ExtPyUpper == <<46, 80, 89>>  \* '.PY'

ExtTxt == <<46, 116, 120, 116>>  \* '.txt'

ExtTxtUpper == <<46, 84, 88, 84>>  \* '.TXT'

\* 'x' followed by an extension.
XName(ext) == <<120>> \o ext

MaxLen == 4

MaxLimit == 2

MaxHead == 2

MaxBad == 3

MaxGood == 7

SmallBuf == 100

\* io.DEFAULT_BUFFER_SIZE, the buffer open() gives out_f.
DefaultBuf == 8192

TextA == <<120, 10, 121, 10>>                 \* 'x\ny\n'

TextB == <<104, 105>>                         \* 'hi'

TextC == <<97, 13, 10, 98, 13, 99, 12, 100>>  \* 'a\r\nb\rc\fd'

Binary == <<97, 0, 98, 99, 100>>              \* a null byte among text

Control == <<1, 2, 97>>                       \* no null byte, two bytes of three not text

Latin == <<99, 233, 10, 100>>                 \* 'c\xe9\nd': not UTF-8

Utf == <<195, 169, 194, 133, 97>>             \* U+00E9 U+0085 'a' in UTF-8

Stale == << [k |-> "body", f |-> 0, s |-> <<122>>] >>

Faults == {"ok", "unreadable", "readfail", "retryfail"}

File(name, bytes) == [name |-> name, bytes |-> bytes, fault |-> "ok"]

BaseFS ==
    [dirs |-> << [name |-> <<>>, parent |-> 0, dirs |-> <<2, 4>>, files |-> <<1, 2>>],
                 [name |-> NameSrc, parent |-> 1, dirs |-> <<3>>, files |-> <<3>>],
                 [name |-> NameSub, parent |-> 2, dirs |-> <<>>, files |-> <<4>>],
                 [name |-> NameLib, parent |-> 1, dirs |-> <<>>, files |-> <<5>>] >>,
     files |-> << File(File_a_py, TextA), File(File_b_txt, TextB),
                  File(File_main_txt, TextC), File(File_deep_py, Utf),
                  File(File_util_py, TextA) >>]

BaseArgs ==
    [exclude_dirs |-> {}, exclude_exts |-> {}, include_exts |-> {},
     skip_hidden |-> TRUE, max_lines |-> None]

Base ==
    [args |-> BaseArgs, fs |-> BaseFS, root_kind |-> "dir", out_ok |-> TRUE,
     out_at |-> 0, bufsize |-> DefaultBuf, disk |-> <<>>]

\* File names bearing each built-in extension, and names that bear none.
ProbeNames ==
    {XName(e) : e \in default_exclude_exts \ {ExtTarGz}}
    \cup {File_archive_tar_gz, File_PHOTO_PNG, File_dotpng, File_a_py, File_A_PY,
          File_env, File_Makefile}

\* Extension filters: one file of every name, text or binary, under every
\* combination of include and exclude arguments.
ExtScenarios ==
    {[Base EXCEPT !.fs.files[1].name = n, !.fs.files[1].bytes = b,
                  !.args.include_exts = inc, !.args.exclude_exts = exc,
                  !.args.skip_hidden = sh] :
        n \in ProbeNames, b \in {TextA, Binary},
        inc \in {{}, {ExtPy}, {ExtPyUpper, ExtTxt}, {ExtPng}},
        exc \in {{}, {ExtPy}, {ExtTxtUpper}},
        sh \in BOOLEAN}

DirNames ==
    {NameSrc, DirGit, NameGitUpper, DirVenv, DirNodeModules, DirPycache,
     NameCache, NameBuild, NameBuildCap}

\* Directory pruning: the names of the three directories and the excluded names.
DirScenarios ==
    {[Base EXCEPT !.fs.dirs[2].name = d2, !.fs.dirs[3].name = d3, !.fs.dirs[4].name = d4,
                  !.fs.files[3].name = File_config,
                  !.args.exclude_dirs = exd, !.args.skip_hidden = sh] :
        d2 \in DirNames, d3 \in {NameSub, DirGit, NameVenvCap}, d4 \in {NameLib, NameBuild},
        exd \in {{}, {NameBuild}, {NameBuildUpper}, {NameSrc}},
        sh \in BOOLEAN}

LineBytes == {97, 10, 13}

Limits == {None} \cup {Some(n) : n \in 0..MaxLimit}

\* The line limit: every short content over a letter and the two common line
\* ends, under every limit.
LineScenarios ==
    {[Base EXCEPT !.fs.files[1].bytes = b, !.args.max_lines = ml] :
        b \in BoundedSeq(LineBytes, MaxLen) \cup {Latin, Utf, TextC}, ml \in Limits}

\* Failing files: every fault on the first three files.
FaultScenarios ==
    {[Base EXCEPT !.fs.files[1].fault = f1, !.fs.files[2].fault = f2,
                  !.fs.files[3].fault = f3,
                  !.fs.files[1].bytes = b1, !.fs.files[2].bytes = b2] :
        f1 \in Faults, f2 \in Faults, f3 \in Faults,
        b1 \in {TextA, Latin}, b2 \in {TextB, Control}}

\* Fatal conditions: what project_path names and whether output_file opens.
FatalScenarios ==
    {[Base EXCEPT !.root_kind = rk, !.out_ok = ok, !.disk = d0] :
        rk \in {"dir", "file", "missing"}, ok \in BOOLEAN, d0 \in {<<>>, Stale}}

\* The output file inside the walked tree (as out.txt) or outside it, with or
\* without earlier content, behind a small or the default buffer.
OutScenarios ==
    {[Base EXCEPT !.out_at = oa,
                  !.fs.files[2].name = IF oa = 2 THEN File_out_txt ELSE File_b_txt,
                  !.fs.files[5].name = IF oa = 5 THEN File_out_txt ELSE File_util_py,
                  !.disk = d0, !.bufsize = bs, !.out_ok = ok,
                  !.args.max_lines = ml, !.args.include_exts = inc] :
        oa \in {0, 2, 5}, d0 \in {<<>>, Stale}, bs \in {SmallBuf, DefaultBuf},
        ok \in BOOLEAN, ml \in Limits, inc \in {{}, {ExtTxt}}}

Scenarios ==
    ExtScenarios \cup DirScenarios \cup LineScenarios \cup FaultScenarios
    \cup FatalScenarios \cup OutScenarios

IdleCall == [bytes |-> <<>>, readable |-> TRUE, result |-> "none"]

Setup(sc) ==
    /\ args = sc.args
    /\ fs = sc.fs
    /\ root_kind = sc.root_kind
    /\ out_ok = sc.out_ok
    /\ out_at = sc.out_at
    /\ bufsize = sc.bufsize
    /\ disk = sc.disk
    /\ buf = <<>>
    /\ pc = "idle"
    /\ todo = <<>>
    /\ cur = 0
    /\ idx = 1
    /\ visited = {}
    /\ sampled = {}
    /\ opened = {}
    /\ skip = [f \in DOMAIN sc.fs.files |-> "none"]
    /\ seen = [f \in DOMAIN sc.fs.files |-> <<>>]
    /\ run = 1
    /\ first = <<>>

Init == cls = IdleCall /\ \E sc \in Scenarios : Setup(sc)

Spec == Init /\ [][Next]_vars

----------------------------------------------------------------------------
(* is_text_file on its own: the files it is called on *)

ProbeBytes == {0, 6, 7, 13, 14, 27, 31, 32, 126, 127, 128, 255}

\* A few arbitrary bytes, then bytes that are not text, then letters.
ShortInputs ==
    {head \o Rep(1, nb) \o Rep(65, ng) :
        head \in BoundedSeq(ProbeBytes, MaxHead), nb \in 0..MaxBad, ng \in 0..MaxGood}

\* Files that reach or pass chunk_size bytes.
LongInputs ==
    {head \o Rep(65, n) \o tail :
        head \in BoundedSeq(ProbeBytes, 1),
        n \in {chunk_size - 2, chunk_size - 1, chunk_size},
        tail \in {<<>>, <<0>>, <<1, 1>>}}

ClassifierCalls ==
    {[bytes |-> b, readable |-> TRUE, result |-> "none"] : b \in ShortInputs \cup LongInputs}
    \cup {[bytes |-> b, readable |-> FALSE, result |-> "none"] : b \in {<<>>, TextA, Binary}}

InitClassifier == cls \in ClassifierCalls /\ Setup(Base)

Classify ==
    /\ cls.result = "none"
    /\ cls' = [cls EXCEPT !.result =
                  IF is_text_file(cls.bytes, cls.readable) THEN "True" ELSE "False"]
    /\ UNCHANGED walkvars

NextClassifier == Classify

SpecClassifier == InitClassifier /\ [][NextClassifier]_vars

----------------------------------------------------------------------------
(* Vocabulary of the properties *)

\* Everything written to the artifact so far, flushed or not.
Artifact == disk \o buf

HasRecord(f) == \E i \in DOMAIN Artifact : Artifact[i].k = "hdr" /\ Artifact[i].f = f

RecordCount(f) == Cardinality({i \in DOMAIN Artifact : Artifact[i].k = "hdr" /\ Artifact[i].f = f})

\* The content written for f.
BodyOf(f) == (CHOOSE c \in Range(Artifact) : c.k = "body" /\ c.f = f).s

\* The relative paths of the '// FILE:' header lines the export wrote.
HeaderPaths == {c.s : c \in {x \in Range(Artifact) : x.k = "hdr"}}

EndsWith(s, t) == Len(t) <= Len(s) /\ SubSeq(s, Len(s) - Len(t) + 1, Len(s)) = t

\* The name is a non-empty stem followed by one of the extensions, in any case.
BearsExtension(name, exts) ==
    \E e \in exts : Len(name) > Len(e) /\ EndsWith(Lower(name), e)

\* The file cannot be sampled, cannot be read in full, or cannot be decoded.
Failing(f) ==
    \/ file_fault(f) \in {"unreadable", "readfail"}
    \/ file_fault(f) = "retryfail" /\ decode_utf8(file_bytes(f)) = Invalid

\* The directory is one lines 62-64 are to drop from dirs.
PrunedName(d) ==
    \/ Lower(fs.dirs[d].name) \in
          {DirGit, DirPycache, DirVenv, DirNodeModules} \cup {Lower(x) : x \in args.exclude_dirs}
    \/ args.skip_hidden /\ fs.dirs[d].name[1] = DOT

RECURSIVE UnderPruned(_)
UnderPruned(d) == d # RootDir /\ (PrunedName(d) \/ UnderPruned(fs.dirs[d].parent))

\* The files of the walk in the order it reaches them.
RECURSIVE WalkFiles(_)
WalkFiles(d) ==
    fs.dirs[d].files
    \o Flatten([i \in DOMAIN kept_dirs(d) |-> WalkFiles(kept_dirs(d)[i])])

Walked == IF root_kind = "dir" THEN WalkFiles(RootDir) ELSE <<>>

\* The write calls of the records of the files of a sequence, in its order.
RecordsOf(fseq) ==
    Flatten([i \in DOMAIN fseq |->
        << [k |-> "hdr", f |-> fseq[i], s |-> rel_path(fseq[i])],
           [k |-> "body", f |-> fseq[i],
            s |-> limit_lines(Decode(fs.files[fseq[i]].bytes), args.max_lines)],
           [k |-> "sep", f |-> fseq[i], s |-> <<>>] >>])

----------------------------------------------------------------------------
(* C1 *)

StatedTextLike == {7, 8, 9, 10, 12, 13, 27} \cup (32..126) \cup (128..255)

StatedSample == Take(cls.bytes, 1024)

StatedNonText == Cardinality({i \in DOMAIN StatedSample : StatedSample[i] \notin StatedTextLike})

\* C1: on a readable file is_text_file returns True exactly when the sample (the
\* first up-to-1024 bytes) is empty, or holds no null byte and its k bytes outside
\* {7,8,9,10,12,13,27}, [0x20,0x7E] and [0x80,0xFF] satisfy 10*k < 3*N; so a null
\* byte gives False and a ratio of exactly 0.3 gives False.
C1_Classifier ==
    (cls.result # "none" /\ cls.readable) =>
        /\ (cls.result = "True") <=>
              \/ StatedSample = <<>>
              \/ /\ \A i \in DOMAIN StatedSample : StatedSample[i] # 0
                 /\ 10 * StatedNonText < 3 * Len(StatedSample)
        /\ (\E i \in DOMAIN StatedSample : StatedSample[i] = 0) => cls.result = "False"
        /\ (StatedSample # <<>> /\ 10 * StatedNonText = 3 * Len(StatedSample))
              => cls.result = "False"

\* A sample without null byte at a ratio of exactly 0.3 has been classified.
C1_Witness ==
    /\ cls.result = "False"
    /\ cls.readable
    /\ \A i \in DOMAIN StatedSample : StatedSample[i] # 0
    /\ Len(StatedSample) = 10
    /\ StatedNonText = 3

----------------------------------------------------------------------------
(* C2 *)

\* A file gets a record when the walk reaches it and it is a readable text file.
Acceptable(f) == classified_text(f) /\ ~Failing(f)

\* C2: with a non-empty include set, a file the extension filter looks at is
\* rejected by it exactly when its lowercased extension is not in the include
\* set, whatever the exclude set holds; and the files with a record at the end
\* are determined without reference to the exclude-extension arguments.
C2_IncludePrecedence ==
    include_exts # {} =>
        /\ \A f \in Files :
              skip[f] \notin {"none", "hidden"} =>
                  ((skip[f] = "ext") <=> (Lower(splitext(fs.files[f].name)) \notin include_exts))
        /\ (pc = "done" /\ out_at = 0) =>
              \A f \in Files :
                  HasRecord(f) <=>
                      /\ f \in Range(Walked)
                      /\ ~hidden_skipped(fs.files[f].name)
                      /\ Lower(splitext(fs.files[f].name)) \in include_exts
                      /\ Acceptable(f)

\* A file whose extension is in both the include and the exclude set got its
\* record, and another file was rejected on its extension.
C2_Witness ==
    /\ pc = "done"
    /\ include_exts # {}
    /\ \E f \in Files :
          /\ skip[f] = "emit"
          /\ HasRecord(f)
          /\ file_ext(fs.files[f].name) \in exclude_exts
    /\ \E g \in Files : skip[g] = "ext"

----------------------------------------------------------------------------
(* C3 *)

\* C3: a directory below the root whose lowercased name is excluded (built-in
\* or given by the caller), or which is hidden while skip_hidden is set, and
\* everything beneath it: the walk never lists it, never has it pending, and no
\* file under it is sampled, opened, decided on or given a record.
C3_PrunedNeverVisited ==
    \A d \in DOMAIN fs.dirs :
        UnderPruned(d) =>
            /\ d \notin visited
            /\ d \notin Range(todo)
            /\ cur # d
            /\ \A f \in Range(fs.dirs[d].files) :
                  /\ f \notin sampled
                  /\ f \notin opened
                  /\ skip[f] = "none"
                  /\ ~HasRecord(f)

\* The export returned after pruning a directory that is excluded only by its
\* lowercased name and has a subdirectory, and it wrote other records.
C3_Witness ==
    /\ pc = "done"
    /\ Artifact # <<>>
    /\ \E d \in DOMAIN fs.dirs :
          /\ d # RootDir
          /\ PrunedName(d)
          /\ Lower(fs.dirs[d].name) # fs.dirs[d].name
          /\ fs.dirs[d].dirs # <<>>
          /\ fs.dirs[d].parent \in visited

----------------------------------------------------------------------------
(* C4 *)

\* C4: the content written for an accepted file is the first N lines of its
\* decoded content joined by newlines when max_lines is N and the decoded
\* content has more than N lines, and the decoded content itself otherwise
\* (N lines or fewer, or no max_lines).
C4_LineLimit ==
    \A f \in Files :
        (skip[f] = "emit" /\ HasRecord(f)) =>
            LET lines == splitlines(seen[f]) IN
            IF args.max_lines # None /\ Len(lines) > args.max_lines[1]
            THEN /\ BodyOf(f) = join(SubSeq(lines, 1, args.max_lines[1]))
                 /\ Len(splitlines(BodyOf(f))) <= args.max_lines[1]
            ELSE BodyOf(f) = seen[f]

\* One file was cut to N lines, and another of exactly N lines whose content
\* is not the join of its lines (it ends with a line end) was written as it is.
C4_Witness ==
    /\ args.max_lines # None
    /\ \E f \in Files :
          /\ skip[f] = "emit"
          /\ Len(splitlines(seen[f])) > args.max_lines[1]
          /\ BodyOf(f) # seen[f]
    /\ \E g \in Files :
          /\ skip[g] = "emit"
          /\ Len(splitlines(seen[g])) = args.max_lines[1]
          /\ seen[g] # join(splitlines(seen[g]))
          /\ BodyOf(g) = seen[g]

----------------------------------------------------------------------------
(* C5 *)

\* C5: when the output artifact cannot be opened for writing, or the root path
\* is missing or not a directory, the export never returns normally.
C5_FatalAborts == (~out_ok \/ root_kind # "dir") => pc # "done"

----------------------------------------------------------------------------
(* C6 *)

\* C6: a file that fails while sampled, read or decoded never stops the export
\* (only the opening of the output does), never gets a record, and the
\* artifact at the end is the one the walk writes for the files that do not
\* fail, as if the failing ones were absent.
C6_FileFailuresSkipped ==
    /\ pc = "error" => ~out_ok
    /\ \A f \in Files : (Failing(f) /\ skip[f] # "none") => ~HasRecord(f)
    /\ (pc = "done" /\ out_at = 0) =>
          Artifact = RecordsOf(SelectSeq(Walked,
                        LAMBDA f : /\ ~Failing(f)
                                   /\ PassesNameFilters(f)
                                   /\ classified_text(f)))

\* The export returned after one file failed in the full read, one in the
\* second decoding attempt and one in the sampling, and it wrote records.
C6_Witness ==
    /\ pc = "done"
    /\ \E f \in Files : skip[f] = "read"
    /\ \E f \in Files : skip[f] = "decode"
    /\ \E f \in Files : skip[f] = "nontext" /\ file_fault(f) = "unreadable"
    /\ \E f \in Files : skip[f] = "emit" /\ HasRecord(f)

----------------------------------------------------------------------------
(* C7 *)

\* C7: the artifact of the second export, run with the same arguments on the
\* same tree, has the bytes of the artifact of the first, also when the output
\* file lies inside the walked tree.
C7_Idempotent == (run = 2 /\ pc = "done") => Render(disk) = Render(first)

\* The second export returned, the output file lies in the tree, held earlier
\* content before the first export, and its own record carries the part of the
\* artifact that had reached the disk when it was read.
C7_Witness ==
    /\ run = 2
    /\ pc = "done"
    /\ out_at # 0
    /\ HasRecord(out_at)
    /\ BodyOf(out_at) # <<>>
    /\ Len(disk) > 3

----------------------------------------------------------------------------
(* C8 *)

RECURSIVE HiddenDir(_)
HiddenDir(d) == d # RootDir /\ (fs.dirs[d].name[1] = DOT \/ HiddenDir(fs.dirs[d].parent))

\* The file or a directory on its path below the root is hidden.
HiddenPath(f) == fs.files[f].name[1] = DOT \/ HiddenDir(DirOf(f))

AllText == \A f \in Files : classified_text(f) /\ file_fault(f) = "ok"

NoExcludedDirNames ==
    \A d \in DOMAIN fs.dirs \ {RootDir} :
        Lower(fs.dirs[d].name) \notin
            {DirGit, DirPycache, DirVenv, DirNodeModules} \cup {Lower(x) : x \in args.exclude_dirs}

StatedExcludedExts ==
    {ExtPng, ExtJpg, ExtJpeg, ExtGif, ExtBmp, ExtIco, ExtSvg, ExtPdf, ExtZip,
     ExtTarGz, ExtO, ExtD, ExtBin} \cup {Lower(x) : x \in args.exclude_exts}

\* C8: for an all-text project without excluded directory names, exported with
\* an empty include set (and hidden entries skipped, which "non-hidden"
\* presupposes), the header paths are exactly the paths of the non-hidden files
\* that bear no excluded extension, each with one record.
C8_RoundTrip ==
    (/\ pc = "done"
     /\ root_kind = "dir"
     /\ out_at = 0
     /\ AllText
     /\ NoExcludedDirNames
     /\ args.include_exts = {}
     /\ args.skip_hidden) =>
        /\ HeaderPaths =
              {rel_path(f) : f \in {g \in Files :
                  ~HiddenPath(g) /\ ~BearsExtension(fs.files[g].name, StatedExcludedExts)}}
        /\ \A f \in Files : RecordCount(f) <= 1

----------------------------------------------------------------------------
(* C9 *)

SampleOf(f) == Take(fs.files[f].bytes, 1024)

----------------------------------------------------------------------------
(* C10 *)

\* C10: with an empty include set, a file that bears one of the built-in
\* extensions .png .jpg .jpeg .gif .bmp .ico .svg .pdf .zip .tar.gz .o .d .bin,
\* in any case, gets no record whatever its content.
C10_DefaultExtensionsSkipped ==
    args.include_exts = {} =>
        \A f \in Files :
            BearsExtension(fs.files[f].name,
                           {ExtPng, ExtJpg, ExtJpeg, ExtGif, ExtBmp, ExtIco, ExtSvg,
                            ExtPdf, ExtZip, ExtTarGz, ExtO, ExtD, ExtBin})
                => ~HasRecord(f)

============================================================================
